---- MODULE Spec2Model ----
(***************************************************************************)
(* A model of server.js: the generate route (/api/ask-ai) with its         *)
(* credential failover and early-stopping stream relay, alone and as two   *)
(* invocations interleaved at their awaits, the publish route              *)
(* (/api/deploy) with its create-or-overwrite decision, and the login      *)
(* callback and current-user routes.                                       *)
(*                                                                         *)
(* Text is a sequence of one-character strings, so that substring search,  *)
(* replacement, splitting and slicing are computed as JavaScript computes  *)
(* them.  A JavaScript value is a record: Undefined or Str(chars).         *)
(***************************************************************************)
EXTENDS Integers, Sequences, FiniteSets, TLC

VARIABLES
    env,               \* process.env.OPENROUTER_API_KEY_1..4
    ipAddresses,       \* the module-level Map of line 18
    validKeys,         \* inference gateway: the keys whose models.list() succeeds
    pc,                \* where the /api/ask-ai handler is suspended
    ip,                \* the network identity of the caller of the generate request
    body,              \* req.body of the generate request
    res,               \* the response object of the generate request
    openRouterKeys,    \* the filtered key list of the request
    apiKeyIndex,       \* let apiKeyIndex
    i,                 \* the loop variable of getWorkingClient
    client,            \* const client of the current loop iteration
    openai,            \* const openai: the client getWorkingClient returned
    completeResponse,  \* let completeResponse
    consumed,          \* the chunks the for await loop has taken from the stream
    caught,            \* the error the catch block of the handler received
    calls,             \* the calls made to the inference gateway, in order
    dpc,               \* where the /api/deploy handler is suspended
    cookies,           \* req.cookies.hf_token of the publish request
    dbody,             \* req.body of the publish request
    newHtml,           \* let newHtml
    repo,              \* const repo
    username,          \* const username: the name whoAmI resolved with
    newTitle,          \* const newTitle
    readme,            \* let readme
    hubCalls,          \* the calls made to the storage platform, in order
    dres,              \* the response of the publish request
    derr,              \* the message of the error the catch of /api/deploy received
    lpc,               \* where the /auth/login handler is suspended
    query,             \* req.query.code
    request_auth,      \* the response of the token endpoint
    lres,              \* the response of the login callback
    escaped,           \* the rejections that left a handler uncaught
    mpc,               \* where the /api/@me handler is suspended
    hf_token,          \* req.cookies.hf_token of the current-user request
    request_user,      \* the response of the userinfo endpoint
    mres,              \* the response of the current-user request
    handlers           \* the invocations of the /api/ask-ai handler under way together

genVars == <<validKeys, pc, ip, body, res, openRouterKeys, apiKeyIndex, i, client,
             openai, completeResponse, consumed, caught, calls>>

depVars == <<dpc, cookies, dbody, newHtml, repo, username, newTitle, readme,
            hubCalls, dres, derr>>

authVars == <<lpc, query, request_auth, lres, escaped, mpc, hf_token,
             request_user, mres>>

\* the state of the routes other than generate and publish
otherVars == <<authVars, handlers>>

vars == <<env, ipAddresses, genVars, depVars, otherVars>>

-----------------------------------------------------------------------------
(* JavaScript values and text *)

Undefined == [type |-> "undefined"]

Str(chars) == [type |-> "string", chars |-> chars]

\* Boolean(v), !v: undefined and the empty string are falsy
Truthy(v) == v.type = "string" /\ v.chars # <<>>

\* a || "" on an optional string
OrEmpty(v) == IF Truthy(v) THEN v.chars ELSE <<>>

\* String.prototype.includes
Includes(s, t) ==
    \E k \in 0..(Len(s) - Len(t)) : SubSeq(s, k + 1, k + Len(t)) = t

RECURSIVE Flatten(_)
Flatten(ss) == IF ss = <<>> THEN <<>> ELSE Head(ss) \o Flatten(Tail(ss))

CloseHtml == <<"<", "/", "h", "t", "m", "l", ">">>

-----------------------------------------------------------------------------
(* Bounds and input sets *)

MaxChunks == 3

NumKeySlots == 4

KeyOf(k) == Str(<<"k", "e", "y", ToString(k)>>)

Envs == [1..NumKeySlots -> {"unset", "set"}]

EnvValue(e, k) == IF e[k] = "set" THEN KeyOf(k) ELSE Undefined

SetKeys(e) == {KeyOf(k) : k \in {n \in 1..NumKeySlots : e[n] = "set"}}

OptionalText(c) == {Undefined, Str(<<>>), Str(<<c>>)}

Bodies ==
    [prompt : OptionalText("p"), html : OptionalText("h"),
     previousPrompt : OptionalText("q")]

\* the callers of the generate route
Addresses == {"10.0.0.1", "10.0.0.2"}

\* chunk.choices[0]?.delta?.content of the chunks the gateway may send
ChunkContents ==
    {Undefined, Str(<<"<", "/", "h", "t">>), Str(<<"m", "l", ">">>),
     Str(CloseHtml)}

-----------------------------------------------------------------------------
(* The express response object *)

NewResponse ==
    [headersSent |-> FALSE, statusCode |-> 200, json |-> <<>>,
     written |-> <<>>, ended |-> 0]

\* res.status(code).send({ok: false, message})
ResSendError(r, code, message) ==
    [r EXCEPT !.headersSent = TRUE, !.statusCode = code,
              !.json = Append(@, [ok |-> FALSE, message |-> message]),
              !.ended = @ + 1]

\* res.write(content): the head is flushed by the first write
ResWrite(r, content) ==
    [r EXCEPT !.headersSent = TRUE, !.written = Append(@, content)]

\* res.end()
ResEnd(r) == [r EXCEPT !.headersSent = TRUE, !.ended = @ + 1]

MissingFields == "Missing required fields"

TokenLimitHint ==
    "You probably reached the MAX_TOKENS limit, context is too long. You can start a new conversation by refreshing the page."

NoAvailableKey == "No available OpenRouter API key."

-----------------------------------------------------------------------------
(* /api/ask-ai *)

SystemInstruction ==
    <<"ONLY USE HTML, CSS AND JAVASCRIPT. If you want to use ICON make sure to import the library first. Try to create the best UI possible by using only HTML, CSS and JAVASCRIPT. Also, try to ellaborate as much as you can, to create something unique. ALWAYS GIVE THE RESPONSE INTO A SINGLE HTML FILE">>

CurrentCodeIs ==
    <<"T", "h", "e", " ", "c", "u", "r", "r", "e", "n", "t", " ", "c", "o",
      "d", "e", " ", "i", "s", ":", " ">>

\* Messages with the assistant turn put before the previous prompt
MessagesHtmlFirst(b) ==
    <<[role |-> "system", content |-> SystemInstruction]>>
    \o (IF Truthy(b.html)
        THEN <<[role |-> "assistant",
                content |-> CurrentCodeIs \o b.html.chars \o <<".">>]>>
        ELSE <<>>)
    \o (IF Truthy(b.previousPrompt)
        THEN <<[role |-> "user", content |-> b.previousPrompt.chars]>>
        ELSE <<>>)
    \o <<[role |-> "user", content |-> b.prompt.chars]>>

\* the messages array of chat.completions.create
Messages(b) ==
    <<[role |-> "system", content |-> SystemInstruction]>>
    \o (IF Truthy(b.previousPrompt)
        THEN <<[role |-> "user", content |-> b.previousPrompt.chars]>>
        ELSE <<>>)
    \o (IF Truthy(b.html)
        THEN <<[role |-> "assistant",
                content |-> CurrentCodeIs \o b.html.chars \o <<".">>]>>
        ELSE <<>>)
    \o <<[role |-> "user", content |-> b.prompt.chars]>>

\* [KEY_1, KEY_2, KEY_3, KEY_4].filter(Boolean)
FilterKeys(e) ==
    LET all == [k \in 1..NumKeySlots |-> EnvValue(e, k)]
    IN  SelectSeq(all, Truthy)

\* createOpenAIClient reading the key at the initial apiKeyIndex
createOpenAIClientFirstKey(keys, index) == [apiKey |-> keys[1]]

\* new OpenAI({baseURL, apiKey: openRouterKeys[apiKeyIndex]})
createOpenAIClient(keys, index) == [apiKey |-> keys[index + 1]]

NoClient == [apiKey |-> Undefined]

\* CatchHandler without the test of res.headersSent
CatchHandlerAlwaysSends(error) ==
    /\ caught' = error
    /\ pc' = "done"
    /\ res' = ResSendError(res, 500, TokenLimitHint)

\* the catch block of the handler
CatchHandler(error) ==
    /\ caught' = error
    /\ pc' = "done"
    /\ res' = IF ~res.headersSent
              THEN ResSendError(res, 500, TokenLimitHint)
              ELSE ResEnd(res)

\* ProbeFrom without the throw after the loop: the last client is returned
ProbeFromFallsThrough(keys, j) ==
    IF j < Len(keys)
    THEN /\ i' = j
         /\ apiKeyIndex' = j
         /\ client' = [apiKey |-> keys[j + 1]]
         /\ calls' = Append(calls, [op |-> "models.list",
                                    apiKey |-> keys[j + 1],
                                    messages |-> <<>>])
         /\ pc' = "probe"
         /\ UNCHANGED <<res, caught>>
    ELSE /\ i' = j
         /\ calls' = Append(calls, [op |-> "chat.completions.create",
                                    apiKey |-> client.apiKey,
                                    messages |-> <<>>])
         /\ pc' = "create"
         /\ UNCHANGED <<apiKeyIndex, client, res, caught>>

\* one iteration of the loop of getWorkingClient from index j, up to its
\* await of models.list(); past the last key, the throw after the loop
ProbeFrom(keys, j) ==
    IF j < Len(keys)
    THEN /\ i' = j
         /\ apiKeyIndex' = j
         /\ client' = createOpenAIClient(keys, j)
         /\ calls' = Append(calls, [op |-> "models.list",
                                    apiKey |-> keys[j + 1],
                                    messages |-> <<>>])
         /\ pc' = "probe"
         /\ UNCHANGED <<res, caught>>
    ELSE /\ i' = j
         /\ CatchHandler(NoAvailableKey)
         /\ UNCHANGED <<apiKeyIndex, client, calls>>

\* AskAi rejecting only a prompt that is undefined
AskAiRejectsUndefinedOnly(b, addr) ==
    /\ pc = "idle"
    /\ ip' = addr
    /\ body' = b
    /\ IF b.prompt = Undefined
       THEN /\ res' = ResSendError(res, 400, MissingFields)
            /\ pc' = "done"
            /\ UNCHANGED <<openRouterKeys, apiKeyIndex, i, client, caught,
                           calls>>
       ELSE /\ openRouterKeys' = FilterKeys(env)
            /\ ProbeFrom(FilterKeys(env), 0)
    /\ UNCHANGED <<consumed, depVars, otherVars, env, ipAddresses, validKeys, openai,
                   completeResponse>>

\* a generate request arrives; the handler runs to its first await
AskAi(b, addr) ==
    /\ pc = "idle"
    /\ ip' = addr
    /\ body' = b
    /\ IF ~Truthy(b.prompt)
       THEN /\ res' = ResSendError(res, 400, MissingFields)
            /\ pc' = "done"
            /\ UNCHANGED <<openRouterKeys, apiKeyIndex, i, client, caught,
                           calls>>
       ELSE /\ openRouterKeys' = FilterKeys(env)
            /\ ProbeFrom(FilterKeys(env), 0)
    /\ UNCHANGED <<consumed, depVars, otherVars, env, ipAddresses, validKeys, openai, completeResponse>>

\* ProbeFails going on two keys further
ProbeFailsSkipsKey ==
    /\ pc = "probe"
    /\ client.apiKey \notin validKeys
    /\ ProbeFrom(openRouterKeys, i + 2)
    /\ UNCHANGED <<consumed, depVars, otherVars, env, ipAddresses, validKeys,
                   ip, body, openRouterKeys, openai, completeResponse>>

\* models.list() rejects: the catch of the loop, then the next iteration
ProbeFails ==
    /\ pc = "probe"
    /\ client.apiKey \notin validKeys
    /\ ProbeFrom(openRouterKeys, i + 1)
    /\ UNCHANGED <<consumed, depVars, otherVars, env, ipAddresses, validKeys, ip, body, openRouterKeys, openai,
                   completeResponse>>

\* models.list() resolves: getWorkingClient returns the client and the
\* handler calls chat.completions.create
ProbeSucceeds ==
    /\ pc = "probe"
    /\ client.apiKey \in validKeys
    /\ openai' = client
    /\ calls' = Append(calls, [op |-> "chat.completions.create",
                               apiKey |-> client.apiKey,
                               messages |-> Messages(body)])
    /\ pc' = "create"
    /\ UNCHANGED <<consumed, depVars, otherVars, env, ipAddresses, validKeys, ip, body, res, openRouterKeys,
                   apiKeyIndex, i, client, completeResponse, caught>>

\* chat.completions.create resolves with a stream
CreateSucceeds ==
    /\ pc = "create"
    /\ pc' = "stream"
    /\ UNCHANGED <<consumed, depVars, otherVars, env, ipAddresses, validKeys, ip, body, res, openRouterKeys,
                   apiKeyIndex, i, client, openai, completeResponse, caught,
                   calls>>

\* chat.completions.create rejects
CreateFails ==
    /\ pc = "create"
    /\ CatchHandler("create failed")
    /\ UNCHANGED <<consumed, depVars, otherVars, env, ipAddresses, validKeys, ip, body, openRouterKeys,
                   apiKeyIndex, i, client, openai, completeResponse, calls>>

\* StreamChunk writing the fragment only when the loop goes on
StreamChunkWritesAfterCheck(c) ==
    /\ pc = "stream"
    /\ Len(res.written) < MaxChunks
    /\ consumed' = Append(consumed, c)
    /\ LET content == OrEmpty(c)
           buffer  == completeResponse \o content
       IN  /\ completeResponse' = buffer
           /\ IF Includes(buffer, CloseHtml)
              THEN /\ res' = ResEnd(res)
                   /\ pc' = "done"
              ELSE /\ res' = ResWrite(res, content)
                   /\ pc' = "stream"
    /\ UNCHANGED <<depVars, otherVars, env, ipAddresses, validKeys, ip, body,
                   openRouterKeys, apiKeyIndex, i, client, openai, caught,
                   calls>>

\* StreamChunk looking for the marker in the chunk alone
StreamChunkChecksChunk(c) ==
    /\ pc = "stream"
    /\ Len(res.written) < MaxChunks
    /\ consumed' = Append(consumed, c)
    /\ LET content == OrEmpty(c)
       IN  /\ completeResponse' = completeResponse \o content
           /\ IF Includes(content, CloseHtml)
              THEN /\ res' = ResEnd(ResWrite(res, content))
                   /\ pc' = "done"
              ELSE /\ res' = ResWrite(res, content)
                   /\ pc' = "stream"
    /\ UNCHANGED <<depVars, otherVars, env, ipAddresses, validKeys, ip, body, openRouterKeys,
                   apiKeyIndex, i, client, openai, caught, calls>>

\* the stream yields a chunk: one iteration of the for await loop, and
\* res.end() after a break
StreamChunk(c) ==
    /\ pc = "stream"
    /\ Len(res.written) < MaxChunks
    /\ consumed' = Append(consumed, c)
    /\ LET content == OrEmpty(c)
           buffer  == completeResponse \o content
       IN  /\ completeResponse' = buffer
           /\ IF Includes(buffer, CloseHtml)
              THEN /\ res' = ResEnd(ResWrite(res, content))
                   /\ pc' = "done"
              ELSE /\ res' = ResWrite(res, content)
                   /\ pc' = "stream"
    /\ UNCHANGED <<depVars, otherVars, env, ipAddresses, validKeys, ip, body, openRouterKeys,
                   apiKeyIndex, i, client, openai, caught, calls>>

\* StreamEnds leaving the loop without res.end()
StreamEndsLeavesOpen ==
    /\ pc = "stream"
    /\ pc' = "done"
    /\ UNCHANGED <<res, consumed, depVars, otherVars, env, ipAddresses,
                   validKeys, ip, body, openRouterKeys, apiKeyIndex, i,
                   client, openai, completeResponse, caught, calls>>

\* the stream ends: the loop exits and res.end() runs
StreamEnds ==
    /\ pc = "stream"
    /\ res' = ResEnd(res)
    /\ pc' = "done"
    /\ UNCHANGED <<consumed, depVars, otherVars, env, ipAddresses, validKeys, ip, body, openRouterKeys,
                   apiKeyIndex, i, client, openai, completeResponse, caught,
                   calls>>

\* the stream throws while the loop awaits its next chunk
StreamFails ==
    /\ pc = "stream"
    /\ CatchHandler("stream failed")
    /\ UNCHANGED <<consumed, depVars, otherVars, env, ipAddresses, validKeys, ip, body, openRouterKeys,
                   apiKeyIndex, i, client, openai, completeResponse, calls>>

-----------------------------------------------------------------------------
(* /api/deploy: text helpers *)

CloseBody == <<"<", "/", "b", "o", "d", "y", ">">>

\* the paragraph of the replacement string of line 111, up to its </p>
AttributionParagraph ==
    <<"<p style=\"border-radius: 8px; text-align: center; font-size: 12px; color: #fff; margin-top: 16px;position: fixed; left: 8px; bottom: 8px; z-index: 10; background: rgba(0, 0, 0, 0.8); padding: 4px 8px;\">Made with <a href=\"https://enzostvs-deepsite.hf.space\" style=\"color: #fff;\" target=\"_blank\" >DeepSite</a> <img src=\"https://enzostvs-deepsite.hf.space/logo.svg\" alt=\"DeepSite Logo\" style=\"width: 16px; height: 16px; vertical-align: middle;\"></p>">>

Attribution == AttributionParagraph \o CloseBody

\* the positions (0-based) at which t occurs in s
Occurrences(s, t) ==
    {k \in 0..(Len(s) - Len(t)) : SubSeq(s, k + 1, k + Len(t)) = t}

Minimum(S) == CHOOSE m \in S : \A n \in S : m <= n

Maximum(S) == CHOOSE m \in S : \A n \in S : m >= n

\* ReplaceFirst replacing the last match instead of the first
ReplaceLast(s, t, by) ==
    IF Occurrences(s, t) = {}
    THEN s
    ELSE LET k == Maximum(Occurrences(s, t))
         IN  SubSeq(s, 1, k) \o by \o SubSeq(s, k + Len(t) + 1, Len(s))

\* String.prototype.replace with a pattern that is not global: the first
\* match is replaced, a string without a match is returned as it is
ReplaceFirst(s, t, by) ==
    IF Occurrences(s, t) = {}
    THEN s
    ELSE LET k == Minimum(Occurrences(s, t))
         IN  SubSeq(s, 1, k) \o by \o SubSeq(s, k + Len(t) + 1, Len(s))

UpperCase ==
    <<"A", "B", "C", "D", "E", "F", "G", "H", "I", "J", "K", "L", "M", "N",
      "O", "P", "Q", "R", "S", "T", "U", "V", "W", "X", "Y", "Z">>

LowerCase ==
    <<"a", "b", "c", "d", "e", "f", "g", "h", "i", "j", "k", "l", "m", "n",
      "o", "p", "q", "r", "s", "t", "u", "v", "w", "x", "y", "z">>

Digits == <<"0", "1", "2", "3", "4", "5", "6", "7", "8", "9">>

Range(f) == {f[x] : x \in DOMAIN f}

\* [a-z0-9]
IsAlnum(c) == c \in Range(LowerCase) \cup Range(Digits)

\* String.prototype.toLowerCase
ToLowerCase(s) ==
    [k \in 1..Len(s) |->
        IF s[k] \in Range(UpperCase)
        THEN LowerCase[CHOOSE n \in 1..26 : UpperCase[n] = s[k]]
        ELSE s[k]]

\* .replace(/[^a-z0-9]+/g, "-"): every maximal run becomes one "-"
ReplaceRuns(s) ==
    LET marked == [k \in 1..Len(s) |->
                      IF IsAlnum(s[k]) THEN s[k]
                      ELSE IF k = 1 \/ IsAlnum(s[k - 1]) THEN "-"
                      ELSE "(rest of run)"]
        Kept(c) == c # "(rest of run)"
    IN  SelectSeq(marked, Kept)

\* .split("-"): the pieces between the separators, empty ones included
Split(s) ==
    LET seps == {k \in 1..Len(s) : s[k] = "-"}
        n == Cardinality(seps)
        Sep(j) == CHOOSE k \in seps : Cardinality({m \in seps : m <= k}) = j
        From(j) == IF j = 1 THEN 1 ELSE Sep(j - 1) + 1
        To(j) == IF j = n + 1 THEN Len(s) ELSE Sep(j) - 1
    IN  [j \in 1..(n + 1) |-> SubSeq(s, From(j), To(j))]

NonEmpty(piece) == piece # <<>>

\* .join("-")
RECURSIVE Join(_)
Join(pieces) ==
    IF pieces = <<>> THEN <<>>
    ELSE IF Len(pieces) = 1 THEN Head(pieces)
    ELSE Head(pieces) \o <<"-">> \o Join(Tail(pieces))

SlugMax == 96

\* .slice(0, n)
Slice(s, n) == SubSeq(s, 1, IF Len(s) < n THEN Len(s) ELSE n)

\* the chain of lines 129-135
Slugify(title) ==
    Slice(Join(SelectSeq(Split(ReplaceRuns(ToLowerCase(title))),
                         NonEmpty)),
          SlugMax)

\* the template literal of lines 143-154
ReadmeOf(slug) ==
    <<"---\ntitle: ">> \o slug
    \o <<"\nemoji: (whale)\ncolorFrom: blue\ncolorTo: blue\nsdk: static\npinned: false\ntags:\n  - deepsite\n---\n\nCheck out the configuration reference at https://huggingface.co/docs/hub/spaces-config-reference">>

-----------------------------------------------------------------------------
(* /api/deploy *)

NoResponse == [statusCode |-> 0, ok |-> FALSE, message |-> "", path |-> Undefined]

NoRepo == [type |-> "space", name |-> Undefined]

IndexFile(content) ==
    [name |-> "index.html", type |-> "text/html", content |-> content]

ReadmeFile(content) ==
    [name |-> "README.md", type |-> "text/markdown", content |-> content]

\* NewHtml without the test of path
NewHtmlAlways(html, path) == ReplaceFirst(html, CloseBody, Attribution)

\* let newHtml of lines 106-113
NewHtml(html, path) ==
    IF ~Truthy(path) THEN ReplaceFirst(html, CloseBody, Attribution) ELSE html

\* path ?? ""
RepoName(path) == IF path = Undefined THEN Str(<<>>) ELSE path

\* if (!path || path === "")
IsCreate(path) == ~Truthy(path) \/ path = Str(<<>>)

\* lines 157-162
FilesOf(html, rd) ==
    IF Truthy(rd) THEN <<IndexFile(html), ReadmeFile(rd.chars)>>
    ELSE <<IndexFile(html)>>

\* DeployCatch answering with a message of its own
DeployCatchGeneric(message) ==
    /\ derr' = message
    /\ dres' = [statusCode |-> 500, ok |-> FALSE, message |-> "Publish failed",
                path |-> Undefined]
    /\ dpc' = "done"

\* the catch block of the handler
DeployCatch(message) ==
    /\ derr' = message
    /\ dres' = [statusCode |-> 500, ok |-> FALSE, message |-> message,
                path |-> Undefined]
    /\ dpc' = "done"

\* await uploadFiles({repo, files, accessToken})
CallUpload(rp, html, rd) ==
    /\ hubCalls' = Append(hubCalls, [op |-> "uploadFiles", repo |-> rp.name,
                                     files |-> FilesOf(html, rd)])
    /\ dpc' = "uploadFiles"

\* the middleware checkUser: a request without the hf_token cookie is
\* answered 401 and does not reach the handler
checkUser(token) == Truthy(token)

\* Deploy answering 400 only when html and title are both missing
DeployRejectsWhenBothMissing(b, token) ==
    /\ dpc = "idle"
    /\ cookies' = token
    /\ dbody' = b
    /\ IF ~Truthy(token)
       THEN /\ dres' = [statusCode |-> 401, ok |-> FALSE,
                        message |-> "Unauthorized", path |-> Undefined]
            /\ dpc' = "done"
            /\ UNCHANGED <<newHtml, repo, hubCalls>>
       ELSE IF ~Truthy(b.html) /\ ~Truthy(b.title)
       THEN /\ dres' = [statusCode |-> 400, ok |-> FALSE,
                        message |-> MissingFields, path |-> Undefined]
            /\ dpc' = "done"
            /\ UNCHANGED <<newHtml, repo, hubCalls>>
       ELSE /\ newHtml' = NewHtml(OrEmpty(b.html), b.path)
            /\ repo' = [type |-> "space", name |-> RepoName(b.path)]
            /\ IF IsCreate(b.path)
               THEN /\ hubCalls' = Append(hubCalls, [op |-> "whoAmI",
                                                     repo |-> Undefined,
                                                     files |-> <<>>])
                    /\ dpc' = "whoAmI"
               ELSE CallUpload([type |-> "space", name |-> RepoName(b.path)],
                               NewHtml(OrEmpty(b.html), b.path), readme)
            /\ UNCHANGED dres
    /\ UNCHANGED <<username, newTitle, readme, derr, env, ipAddresses, genVars, otherVars>>

\* a publish request arrives; checkUser, then the handler to its first await
Deploy(b, token) ==
    /\ dpc = "idle"
    /\ cookies' = token
    /\ dbody' = b
    /\ IF ~checkUser(token)
       THEN /\ dres' = [statusCode |-> 401, ok |-> FALSE,
                        message |-> "Unauthorized", path |-> Undefined]
            /\ dpc' = "done"
            /\ UNCHANGED <<newHtml, repo, hubCalls>>
       ELSE IF ~Truthy(b.html) \/ ~Truthy(b.title)
       THEN /\ dres' = [statusCode |-> 400, ok |-> FALSE,
                        message |-> MissingFields, path |-> Undefined]
            /\ dpc' = "done"
            /\ UNCHANGED <<newHtml, repo, hubCalls>>
       ELSE /\ newHtml' = NewHtml(b.html.chars, b.path)
            /\ repo' = [type |-> "space", name |-> RepoName(b.path)]
            /\ IF IsCreate(b.path)
               THEN /\ hubCalls' = Append(hubCalls, [op |-> "whoAmI",
                                                     repo |-> Undefined,
                                                     files |-> <<>>])
                    /\ dpc' = "whoAmI"
               ELSE CallUpload([type |-> "space", name |-> RepoName(b.path)],
                               NewHtml(b.html.chars, b.path), readme)
            /\ UNCHANGED dres
    /\ UNCHANGED <<username, newTitle, readme, derr, env, ipAddresses, genVars, otherVars>>

\* RepoId without the namespace
RepoIdWithoutNamespace(name, slug) == Str(slug)

\* `${username}/${newTitle}`
RepoId(name, slug) == Str(name \o <<"/">> \o slug)

\* whoAmI resolves: the slug, the repo id, then await createRepo
WhoAmISucceeds(name) ==
    /\ dpc = "whoAmI"
    /\ username' = Str(name)
    /\ newTitle' = Str(Slugify(dbody.title.chars))
    /\ repo' = [repo EXCEPT !.name = RepoId(name, Slugify(dbody.title.chars))]
    /\ hubCalls' = Append(hubCalls,
                          [op |-> "createRepo",
                           repo |-> RepoId(name, Slugify(dbody.title.chars)),
                           files |-> <<>>])
    /\ dpc' = "createRepo"
    /\ UNCHANGED <<derr, cookies, dbody, newHtml, readme, dres, env, ipAddresses, genVars, otherVars>>

WhoAmIFails(message) ==
    /\ dpc = "whoAmI"
    /\ DeployCatch(message)
    /\ UNCHANGED <<cookies, dbody, newHtml, repo, username, newTitle, readme, hubCalls, env,
                   ipAddresses, genVars, otherVars>>

\* createRepo resolves: the readme, the files, then await uploadFiles
CreateRepoSucceeds ==
    /\ dpc = "createRepo"
    /\ readme' = Str(ReadmeOf(newTitle.chars))
    /\ CallUpload(repo, newHtml, Str(ReadmeOf(newTitle.chars)))
    /\ UNCHANGED <<derr, cookies, dbody, newHtml, repo, username, newTitle, dres, env, ipAddresses,
                   genVars, otherVars>>

CreateRepoFails(message) ==
    /\ dpc = "createRepo"
    /\ DeployCatch(message)
    /\ UNCHANGED <<cookies, dbody, newHtml, repo, username, newTitle, readme, hubCalls, env,
                   ipAddresses, genVars, otherVars>>

\* uploadFiles resolves: res.status(200).send({ok: true, path: repo.name})
UploadSucceeds ==
    /\ dpc = "uploadFiles"
    /\ dres' = [statusCode |-> 200, ok |-> TRUE, message |-> "",
                path |-> repo.name]
    /\ dpc' = "done"
    /\ UNCHANGED <<derr, cookies, dbody, newHtml, repo, username, newTitle, readme, hubCalls, env,
                   ipAddresses, genVars, otherVars>>

UploadFails(message) ==
    /\ dpc = "uploadFiles"
    /\ DeployCatch(message)
    /\ UNCHANGED <<cookies, dbody, newHtml, repo, username, newTitle, readme, hubCalls, env,
                   ipAddresses, genVars, otherVars>>

-----------------------------------------------------------------------------
(* /auth/login and /api/@me *)

NoLoginResponse == [status |-> 0, location |-> "", cookie |-> Undefined]

\* what request_auth.json() gives for a response of the token endpoint
AuthBodies ==
    {[json |-> TRUE, access_token |-> Str(<<"t">>)],
     [json |-> TRUE, access_token |-> Undefined],
     [json |-> FALSE, access_token |-> Undefined]}

\* the responses of the userinfo endpoint: a profile for a token it accepts,
\* a 401 with or without a JSON body for a token it rejects
UserResponses ==
    {[status |-> 200, json |-> TRUE, body |-> "profile"],
     [status |-> 401, json |-> TRUE, body |-> "error"],
     [status |-> 401, json |-> FALSE, body |-> "text"]}

FetchErrors == {"fetch failed", "getaddrinfo ENOTFOUND huggingface.co"}

Codes == {Undefined, Str(<<>>), Str(<<"c">>), Str(<<"d">>)}

\* res.redirect(302, "/")
RedirectHome(r) == [r EXCEPT !.status = 302, !.location = "/"]

\* a rejection inside the handler of /auth/login: nothing catches it, the
\* promise of the handler rejects and the handler sends no response
LoginRejection(message) ==
    /\ escaped' = escaped \cup {[route |-> "/auth/login", message |-> message]}
    /\ lpc' = "done"
    /\ UNCHANGED <<lres, request_auth>>

\* the login callback arrives; the handler runs to its await of fetch
Login(c) ==
    /\ lpc = "idle"
    /\ query' = c
    /\ IF ~Truthy(c)
       THEN /\ lres' = RedirectHome(lres)
            /\ lpc' = "done"
       ELSE /\ lpc' = "fetch"
            /\ UNCHANGED lres
    /\ UNCHANGED <<request_auth, escaped, mpc, hf_token, request_user, mres,
                   env, ipAddresses, genVars, depVars, handlers>>

\* fetch of the token endpoint resolves
TokenFetchResolves(response) ==
    /\ lpc = "fetch"
    /\ request_auth' = response
    /\ lpc' = "json"
    /\ UNCHANGED <<query, lres, escaped, mpc, hf_token, request_user, mres,
                   env, ipAddresses, genVars, depVars, handlers>>

\* fetch of the token endpoint rejects
TokenFetchRejects(message) ==
    /\ lpc = "fetch"
    /\ LoginRejection(message)
    /\ UNCHANGED <<query, mpc, hf_token, request_user, mres, env, ipAddresses,
                   genVars, depVars, handlers>>

\* request_auth.json() resolves or rejects; then the cookie and the redirect
TokenJson ==
    /\ lpc = "json"
    /\ IF ~request_auth.json
       THEN LoginRejection("Unexpected token")
       ELSE /\ lpc' = "done"
            /\ lres' = IF ~Truthy(request_auth.access_token)
                       THEN RedirectHome(lres)
                       ELSE [RedirectHome(lres) EXCEPT
                                !.cookie = request_auth.access_token]
            /\ UNCHANGED <<request_auth, escaped>>
    /\ UNCHANGED <<query, mpc, hf_token, request_user, mres, env, ipAddresses,
                   genVars, depVars, handlers>>

NoUserResponse == [status |-> 0, json |-> FALSE, body |-> "none"]

NoMeResponse ==
    [statusCode |-> 0, body |-> "none", message |-> "", cleared |-> FALSE]

\* the catch block of /api/@me
MeCatch(message) ==
    /\ mres' = [statusCode |-> 401, body |-> "error", message |-> message,
                cleared |-> TRUE]
    /\ mpc' = "done"

\* a current-user request arrives; checkUser, then the handler to its fetch
Me(token) ==
    /\ mpc = "idle"
    /\ hf_token' = token
    /\ IF ~checkUser(token)
       THEN /\ mres' = [statusCode |-> 401, body |-> "error",
                        message |-> "Unauthorized", cleared |-> FALSE]
            /\ mpc' = "done"
       ELSE /\ mpc' = "fetch"
            /\ UNCHANGED mres
    /\ UNCHANGED <<request_user, lpc, query, request_auth, lres, escaped, env,
                   ipAddresses, genVars, depVars, handlers>>

\* fetch of the userinfo endpoint resolves, whatever the status
UserFetchResolves(response) ==
    /\ mpc = "fetch"
    /\ request_user' = response
    /\ mpc' = "json"
    /\ UNCHANGED <<hf_token, mres, lpc, query, request_auth, lres, escaped,
                   env, ipAddresses, genVars, depVars, handlers>>

\* fetch of the userinfo endpoint rejects
UserFetchRejects(message) ==
    /\ mpc = "fetch"
    /\ MeCatch(message)
    /\ UNCHANGED <<hf_token, request_user, lpc, query, request_auth, lres,
                   escaped, env, ipAddresses, genVars, depVars, handlers>>

\* request_user.json() resolves and res.send(user), or rejects
UserJson ==
    /\ mpc = "json"
    /\ IF ~request_user.json
       THEN MeCatch("Unexpected token")
       ELSE /\ mres' = [statusCode |-> 200, body |-> request_user.body,
                        message |-> "", cleared |-> FALSE]
            /\ mpc' = "done"
    /\ UNCHANGED <<hf_token, request_user, lpc, query, request_auth, lres,
                   escaped, env, ipAddresses, genVars, depVars, handlers>>

-----------------------------------------------------------------------------
(* Inputs of the publish route *)

MaxHtmlPieces == 2

MaxTitleLen == 3

HtmlPieces == {<<"a">>, CloseBody, <<"<", "/">>, <<"b", "o", "d", "y", ">">>}

RECURSIVE Texts(_, _)
\* the concatenations of at most n pieces
Texts(pieces, n) ==
    IF n = 0 THEN {<<>>}
    ELSE LET shorter == Texts(pieces, n - 1)
         IN  shorter \cup {t \o p : t \in shorter, p \in pieces}

Htmls == {Undefined} \cup {Str(t) : t \in Texts(HtmlPieces, MaxHtmlPieces)}

TitleChars == {<<"a">>, <<"B">>, <<"1">>, <<"-">>, <<"!">>}

ShortTitles == Texts(TitleChars, MaxTitleLen)

Repeat(c, n) == [k \in 1..n |-> c]

\* titles whose slug reaches the length limit
LongTitles ==
    {Repeat("a", n) \o t : n \in (SlugMax - 2)..SlugMax, t \in ShortTitles}

MyCoolApp ==
    <<"M", "y", " ", "C", "o", "o", "l", " ", "A", "p", "p", "!", "!">>

Paths == {Undefined, Str(<<>>), Str(<<"u", "/", "s">>)}

Tokens == {Undefined, Str(<<"t">>)}

Usernames == {<<"u">>, <<"v">>}

\* err.message of a rejected call to the platform
HubErrors == {"Invalid credentials", "Internal Server Error"}

\* every html with a few titles, and every title with one html
DeployBodies ==
    [html : Htmls, title : {Undefined, Str(<<>>), Str(MyCoolApp)},
     path : Paths]
    \cup [html : {Str(<<"a">> \o CloseBody)},
          title : {Str(t) : t \in ShortTitles \cup LongTitles},
          path : Paths]

-----------------------------------------------------------------------------
(* /api/ask-ai called twice: each call of the handler has its own req, res  *)
(* and its own closure over openRouterKeys, apiKeyIndex, i, client, openai  *)
(* and completeResponse; the calls interleave at their awaits.  A record of *)
(* handlers holds the closure of one call; `listing` is the key of the      *)
(* models.list() call it awaits, `passed` the key of the call that          *)
(* resolved, `broke` whether the loop was left by the break of line 257.    *)

Requests == {"r1", "r2"}

\* both calls are made with a prompt, under the first two keys of the pool
ConcurrentEnv == [k \in 1..NumKeySlots |-> IF k <= 2 THEN "set" ELSE "unset"]

ConcurrentChunks == {Str(<<"<", "/", "h", "t">>), Str(<<"m", "l", ">">>)}

NewHandler ==
    [pc |-> "idle", res |-> NewResponse, openRouterKeys |-> <<>>,
     apiKeyIndex |-> 0, i |-> 0, client |-> NoClient, openai |-> NoClient,
     completeResponse |-> <<>>, listing |-> Undefined, passed |-> Undefined,
     broke |-> FALSE]

\* the catch block of the handler, on the closure h
HandlerCatch(h) ==
    [h EXCEPT !.pc = "done",
              !.res = IF ~h.res.headersSent
                      THEN ResSendError(h.res, 500, TokenLimitHint)
                      ELSE ResEnd(h.res)]

\* one iteration of the loop of getWorkingClient from index j, on the
\* closure h
HandlerProbeFrom(h, j) ==
    IF j < Len(h.openRouterKeys)
    THEN [h EXCEPT !.i = j, !.apiKeyIndex = j,
                   !.client = createOpenAIClient(h.openRouterKeys, j),
                   !.listing = h.openRouterKeys[j + 1],
                   !.pc = "probe"]
    ELSE HandlerCatch([h EXCEPT !.i = j])

\* the loop body of lines 251-259 on the closure h, for a chunk with content c
HandlerChunk(h, c) ==
    LET content == OrEmpty(c)
        buffer  == h.completeResponse \o content
        written == [h EXCEPT !.res = ResWrite(h.res, content),
                             !.completeResponse = buffer]
    IN  IF Includes(buffer, CloseHtml)
        THEN [written EXCEPT !.res = ResEnd(written.res), !.pc = "done",
                             !.broke = TRUE]
        ELSE written

ConcurrentAskAi(r) ==
    /\ handlers[r].pc = "idle"
    /\ handlers' =
          [handlers EXCEPT
             ![r] = HandlerProbeFrom(
                        [@ EXCEPT !.openRouterKeys = FilterKeys(env)], 0)]
    /\ UNCHANGED <<env, ipAddresses, genVars, depVars, authVars>>

ConcurrentProbeFails(r) ==
    /\ handlers[r].pc = "probe"
    /\ handlers' =
          [handlers EXCEPT ![r] = HandlerProbeFrom(@, handlers[r].i + 1)]
    /\ UNCHANGED <<env, ipAddresses, genVars, depVars, authVars>>

ConcurrentProbeSucceeds(r) ==
    /\ handlers[r].pc = "probe"
    /\ handlers' =
          [handlers EXCEPT ![r] = [@ EXCEPT !.passed = handlers[r].listing,
                                            !.openai = handlers[r].client,
                                            !.pc = "create"]]
    /\ UNCHANGED <<env, ipAddresses, genVars, depVars, authVars>>

ConcurrentCreateSucceeds(r) ==
    /\ handlers[r].pc = "create"
    /\ handlers' = [handlers EXCEPT ![r].pc = "stream"]
    /\ UNCHANGED <<env, ipAddresses, genVars, depVars, authVars>>

ConcurrentCreateFails(r) ==
    /\ handlers[r].pc = "create"
    /\ handlers' = [handlers EXCEPT ![r] = HandlerCatch(@)]
    /\ UNCHANGED <<env, ipAddresses, genVars, depVars, authVars>>

\* ConcurrentStreamChunk with completeResponse declared at module level:
\* the fragment is appended to the one buffer every call reads
ConcurrentStreamChunkSharedBuffer(r, c) ==
    /\ handlers[r].pc = "stream"
    /\ Len(handlers[r].res.written) < MaxChunks
    /\ handlers' =
          [q \in Requests |->
             IF q = r
             THEN HandlerChunk(handlers[q], c)
             ELSE [handlers[q] EXCEPT !.completeResponse = @ \o OrEmpty(c)]]
    /\ UNCHANGED <<env, ipAddresses, genVars, depVars, authVars>>

\* the stream of call r yields a chunk
ConcurrentStreamChunk(r, c) ==
    /\ handlers[r].pc = "stream"
    /\ Len(handlers[r].res.written) < MaxChunks
    /\ handlers' = [handlers EXCEPT ![r] = HandlerChunk(@, c)]
    /\ UNCHANGED <<env, ipAddresses, genVars, depVars, authVars>>

ConcurrentStreamEnds(r) ==
    /\ handlers[r].pc = "stream"
    /\ handlers' = [handlers EXCEPT ![r] = [@ EXCEPT !.res = ResEnd(@),
                                                    !.pc = "done"]]
    /\ UNCHANGED <<env, ipAddresses, genVars, depVars, authVars>>

ConcurrentStreamFails(r) ==
    /\ handlers[r].pc = "stream"
    /\ handlers' = [handlers EXCEPT ![r] = HandlerCatch(@)]
    /\ UNCHANGED <<env, ipAddresses, genVars, depVars, authVars>>

-----------------------------------------------------------------------------

InitRequests ==
    /\ handlers = [r \in Requests |-> NewHandler]
    /\ ipAddresses = <<>>
    /\ lpc = "idle"
    /\ query = Undefined
    /\ request_auth = [json |-> FALSE, access_token |-> Undefined]
    /\ lres = NoLoginResponse
    /\ escaped = {}
    /\ mpc = "idle"
    /\ hf_token = Undefined
    /\ request_user = NoUserResponse
    /\ mres = NoMeResponse
    /\ dpc = "idle"
    /\ cookies = Undefined
    /\ derr = "none"
    /\ dbody = [html |-> Undefined, title |-> Undefined, path |-> Undefined]
    /\ newHtml = <<>>
    /\ repo = NoRepo
    /\ username = Undefined
    /\ newTitle = Undefined
    /\ readme = Undefined
    /\ hubCalls = <<>>
    /\ dres = NoResponse
    /\ pc = "idle"
    /\ ip = "none"
    /\ body = [prompt |-> Undefined, html |-> Undefined,
               previousPrompt |-> Undefined]
    /\ res = NewResponse
    /\ openRouterKeys = <<>>
    /\ apiKeyIndex = 0
    /\ i = 0
    /\ client = NoClient
    /\ openai = NoClient
    /\ completeResponse = <<>>
    /\ consumed = <<>>
    /\ caught = "none"
    /\ calls = <<>>

\* the generate route, for every setting of the key slots and every gateway
Init ==
    /\ env \in Envs
    /\ validKeys \in SUBSET SetKeys(env)
    /\ InitRequests

Next ==
    \/ \E b \in Bodies, addr \in Addresses : AskAi(b, addr)
    \/ ProbeFails
    \/ ProbeSucceeds
    \/ CreateSucceeds
    \/ CreateFails
    \/ \E c \in ChunkContents : StreamChunk(c)
    \/ StreamEnds
    \/ StreamFails

Spec == Init /\ [][Next]_vars

\* every awaited upstream call settles: a probe passes or fails, the
\* completion call returns or rejects, the stream yields, ends or throws
ProbeSettles == ProbeFails \/ ProbeSucceeds

CreateSettles == CreateSucceeds \/ CreateFails

StreamSettles ==
    \/ \E c \in ChunkContents : StreamChunk(c)
    \/ StreamEnds
    \/ StreamFails

FairSpec ==
    /\ Spec
    /\ WF_vars(ProbeSettles)
    /\ WF_vars(CreateSettles)
    /\ WF_vars(StreamSettles)

\* two generate requests under way together
InitConcurrent ==
    /\ env = ConcurrentEnv
    /\ validKeys = {}
    /\ InitRequests

NextConcurrent ==
    \/ \E r \in Requests : ConcurrentAskAi(r)
    \/ \E r \in Requests : ConcurrentProbeFails(r)
    \/ \E r \in Requests : ConcurrentProbeSucceeds(r)
    \/ \E r \in Requests : ConcurrentCreateSucceeds(r)
    \/ \E r \in Requests : ConcurrentCreateFails(r)
    \/ \E r \in Requests, c \in ConcurrentChunks : ConcurrentStreamChunk(r, c)
    \/ \E r \in Requests : ConcurrentStreamEnds(r)
    \/ \E r \in Requests : ConcurrentStreamFails(r)

SpecConcurrent == InitConcurrent /\ [][NextConcurrent]_vars

\* the publish route
InitDeploy ==
    /\ env = [k \in 1..NumKeySlots |-> "unset"]
    /\ validKeys = {}
    /\ InitRequests

NextDeploy ==
    \/ \E b \in DeployBodies, token \in Tokens : Deploy(b, token)
    \/ \E name \in Usernames : WhoAmISucceeds(name)
    \/ \E message \in HubErrors : WhoAmIFails(message)
    \/ CreateRepoSucceeds
    \/ \E message \in HubErrors : CreateRepoFails(message)
    \/ UploadSucceeds
    \/ \E message \in HubErrors : UploadFails(message)

SpecDeploy == InitDeploy /\ [][NextDeploy]_vars

\* the login callback and the current-user route, interleaved
NextAuth ==
    \/ \E c \in Codes : Login(c)
    \/ \E response \in AuthBodies : TokenFetchResolves(response)
    \/ \E message \in FetchErrors : TokenFetchRejects(message)
    \/ TokenJson
    \/ \E token \in Tokens : Me(token)
    \/ \E response \in UserResponses : UserFetchResolves(response)
    \/ \E message \in FetchErrors : UserFetchRejects(message)
    \/ UserJson

SpecAuth == InitDeploy /\ [][NextAuth]_vars

-----------------------------------------------------------------------------
(* Properties of the generate route, checked under Spec *)

HasPassingKey ==
    \E j \in 1..Len(openRouterKeys) : openRouterKeys[j] \in validKeys

FirstPassing ==
    CHOOSE j \in 1..Len(openRouterKeys) :
        /\ openRouterKeys[j] \in validKeys
        /\ \A m \in 1..(j - 1) : openRouterKeys[m] \notin validKeys

CompletionCalls == SelectSeq(calls, LAMBDA c : c.op = "chat.completions.create")

PastProbing == pc \in {"create", "stream", "done"}

\* C1: when some key of the pool passes the probe, getWorkingClient returns
\* a client bound to the first passing key of the pool, never to a later
\* one, and the chat completion is made with that key
FirstPassingCredential ==
    /\ openai # NoClient =>
          /\ HasPassingKey
          /\ openai.apiKey = openRouterKeys[FirstPassing]
    /\ (HasPassingKey /\ PastProbing) =>
          /\ openai.apiKey = openRouterKeys[FirstPassing]
          /\ Len(CompletionCalls) = 1
          /\ CompletionCalls[1].apiKey = openRouterKeys[FirstPassing]

\* the first key of the pool fails, the second passes, and so does a later one
WitnessFirstPassing ==
    /\ openai # NoClient
    /\ FirstPassing = 2
    /\ \E j \in 3..Len(openRouterKeys) : openRouterKeys[j] \in validKeys

\* C2: with an empty pool, or one whose keys all fail the probe, the request
\* ends with the error of getWorkingClient, answered as a 500 with a
\* structured body, and no chat completion is ever called
NoAvailableCredential ==
    (Truthy(body.prompt) /\ ~HasPassingKey) =>
        /\ CompletionCalls = <<>>
        /\ openai = NoClient
        /\ pc \in {"probe", "done"}
        /\ pc = "done" =>
              /\ caught = NoAvailableKey
              /\ res.statusCode = 500
              /\ Len(res.json) = 1
              /\ res.json[1].ok = FALSE
              /\ res.written = <<>>
              /\ res.ended = 1
              /\ Len(calls) = Len(openRouterKeys)

\* every key of a pool of at least two was probed and failed
WitnessAllKeysFail ==
    /\ pc = "done"
    /\ caught = NoAvailableKey
    /\ Len(openRouterKeys) >= 2
    /\ Len(calls) = Len(openRouterKeys)

WrittenBefore(n) == Flatten(SubSeq(res.written, 1, n))

\* C3: once the buffer contains "</html>" the relay is done: the fragment
\* that completed the marker is the last one written (no earlier prefix of
\* the written fragments held the marker), and the response was ended once
EarlyStop ==
    Includes(completeResponse, CloseHtml) =>
        /\ pc = "done"
        /\ res.ended = 1
        /\ res.json = <<>>
        /\ Flatten(res.written) = completeResponse
        /\ ~Includes(WrittenBefore(Len(res.written) - 1), CloseHtml)

\* the marker arrived split over fragments, with room for further fragments
WitnessSplitMarker ==
    /\ Includes(completeResponse, CloseHtml)
    /\ \A n \in 1..Len(res.written) : ~Includes(res.written[n], CloseHtml)
    /\ Len(res.written) < MaxChunks
    /\ pc = "done"

\* C4: after an upstream failure the caller got the structured 500 if no
\* fragment had been written, and a plain end of the response otherwise; no
\* structured error is ever sent after a fragment was written
ErrorOnlyBeforeOutput ==
    /\ res.json # <<>> => res.written = <<>>
    /\ caught # "none" =>
          /\ pc = "done"
          /\ res.ended = 1
          /\ IF res.written = <<>>
             THEN /\ res.statusCode = 500
                  /\ res.json = <<[ok |-> FALSE, message |-> TokenLimitHint]>>
             ELSE /\ res.statusCode = 200
                  /\ res.json = <<>>

\* the stream failed after a fragment with text had been written
WitnessFailureAfterOutput ==
    /\ caught = "stream failed"
    /\ completeResponse # <<>>
    /\ res.ended = 1

Present(v) == v # Undefined

Count(b) == IF b THEN 1 ELSE 0

\* the message list the claim C5 describes, for a given notion of "present"
ExpectedMessages(hasPrevious, hasHtml) ==
    <<[role |-> "system", content |-> SystemInstruction]>>
    \o (IF hasPrevious
        THEN <<[role |-> "user", content |-> body.previousPrompt.chars]>>
        ELSE <<>>)
    \o (IF hasHtml
        THEN <<[role |-> "assistant",
                content |-> CurrentCodeIs \o body.html.chars \o <<".">>]>>
        ELSE <<>>)
    \o <<[role |-> "user", content |-> body.prompt.chars]>>

\* C5 as stated: the list has the previous prompt whenever it is present,
\* and the html whenever it is present
MessageOrderWhenPresent ==
    \A n \in 1..Len(CompletionCalls) :
        /\ CompletionCalls[n].messages =
              ExpectedMessages(Present(body.previousPrompt), Present(body.html))
        /\ Len(CompletionCalls[n].messages) =
              2 + Count(Present(body.previousPrompt)) + Count(Present(body.html))

\* C5 amended: the list is system, the previous prompt as a user turn if it
\* is present and not empty, the html as an assistant turn if it is present
\* and not empty, then the prompt as the last user turn
MessageOrderWhenNonEmpty ==
    \A n \in 1..Len(CompletionCalls) :
        LET m == CompletionCalls[n].messages
            hasPrevious == Truthy(body.previousPrompt)
            hasHtml == Truthy(body.html)
        IN  /\ Len(m) = 2 + Count(hasPrevious) + Count(hasHtml)
            /\ m[1] = [role |-> "system", content |-> SystemInstruction]
            /\ m[Len(m)] = [role |-> "user", content |-> body.prompt.chars]
            /\ hasPrevious =>
                  m[2] = [role |-> "user",
                          content |-> body.previousPrompt.chars]
            /\ hasHtml =>
                  /\ m[Len(m) - 1].role = "assistant"
                  /\ Includes(m[Len(m) - 1].content, body.html.chars)
                  /\ m[Len(m) - 1].content =
                        CurrentCodeIs \o body.html.chars \o <<".">>

\* a completion was called with all four messages
WitnessFourMessages ==
    /\ CompletionCalls # <<>>
    /\ Len(CompletionCalls[1].messages) = 4
    /\ Truthy(body.previousPrompt)
    /\ Truthy(body.html)

\* C6: a request whose prompt is missing or empty is answered 400 with the
\* missing-fields error and makes no call to the inference gateway
MissingPromptRejected ==
    (pc # "idle" /\ ~Truthy(body.prompt)) =>
        /\ pc = "done"
        /\ calls = <<>>
        /\ res.statusCode = 400
        /\ res.json = <<[ok |-> FALSE, message |-> MissingFields]>>
        /\ res.written = <<>>
        /\ res.ended = 1

\* a request with an empty prompt was answered, in a process that has keys
WitnessEmptyPrompt ==
    /\ pc = "done"
    /\ body.prompt = Str(<<>>)
    /\ res.statusCode = 400
    /\ FilterKeys(env) # <<>>

-----------------------------------------------------------------------------
(* Properties of the publish route, checked under SpecDeploy *)

UploadCalls == SelectSeq(hubCalls, LAMBDA c : c.op = "uploadFiles")

\* C7: with a non-empty path, the only call to the platform is one upload
\* of the single file index.html holding the html of the request unchanged,
\* to the repo named by path; there is no readme, no whoAmI, no createRepo,
\* and the path answered is the path of the request
OverwriteUploadsInputUnchanged ==
    Truthy(dbody.path) =>
        /\ Len(hubCalls) <= 1
        /\ \A n \in 1..Len(hubCalls) :
              /\ hubCalls[n].op = "uploadFiles"
              /\ hubCalls[n].repo = dbody.path
              /\ hubCalls[n].files = <<[name |-> "index.html",
                                        type |-> "text/html",
                                        content |-> dbody.html.chars]>>
        /\ readme = Undefined
        /\ username = Undefined
        /\ dres.statusCode = 200 =>
              /\ Len(hubCalls) = 1
              /\ dres.ok
              /\ dres.path = dbody.path

\* an overwrite of an html that has a closing body tag was answered 200
WitnessOverwrite ==
    /\ Truthy(dbody.path)
    /\ dres.statusCode = 200
    /\ Includes(dbody.html.chars, CloseBody)

\* C8: without a path, the calls to the platform are whoAmI, then
\* createRepo, then uploadFiles, in that order and once each; createRepo,
\* uploadFiles and the answer all name username/slug; the upload holds
\* index.html and README.md
CreateThenUpload ==
    IsCreate(dbody.path) =>
        /\ Len(hubCalls) <= 3
        /\ Len(hubCalls) >= 1 => hubCalls[1].op = "whoAmI"
        /\ Len(hubCalls) >= 2 =>
              /\ hubCalls[2].op = "createRepo"
              /\ hubCalls[2].repo =
                    Str(username.chars \o <<"/">> \o newTitle.chars)
        /\ Len(hubCalls) >= 3 =>
              /\ hubCalls[3].op = "uploadFiles"
              /\ hubCalls[3].repo = hubCalls[2].repo
              /\ Len(hubCalls[3].files) = 2
              /\ hubCalls[3].files[1].name = "index.html"
              /\ hubCalls[3].files[1].content = newHtml
              /\ hubCalls[3].files[2].name = "README.md"
              /\ hubCalls[3].files[2].content = readme.chars
        /\ dres.statusCode = 200 =>
              /\ Len(hubCalls) = 3
              /\ dres.path = hubCalls[2].repo
              /\ dres.path.chars =
                    username.chars \o <<"/">> \o newTitle.chars

\* a site was created and the answer is 200
WitnessCreate ==
    /\ IsCreate(dbody.path)
    /\ dres.statusCode = 200
    /\ Len(hubCalls) = 3
    /\ newTitle.chars # <<>>

\* the text has the attribution paragraph right before a closing body tag
HasAttribution(text) == Includes(text, AttributionParagraph \o CloseBody)

\* C9 as stated: on the create branch every uploaded html has the
\* attribution right before its closing body tag; on overwrite the html is
\* the input
AttributionOnEveryCreate ==
    \A n \in 1..Len(UploadCalls) :
        IF IsCreate(dbody.path)
        THEN HasAttribution(UploadCalls[n].files[1].content)
        ELSE UploadCalls[n].files[1].content = dbody.html.chars

\* text is html with the paragraph put in right before position k + 1,
\* where the first closing body tag of html starts
InsertedBeforeFirstCloseBody(text, html, k) ==
    /\ SubSeq(html, k + 1, k + Len(CloseBody)) = CloseBody
    /\ \A m \in 0..(k - 1) : SubSeq(html, m + 1, m + Len(CloseBody)) # CloseBody
    /\ text = SubSeq(html, 1, k) \o AttributionParagraph
              \o SubSeq(html, k + 1, Len(html))

\* C9 amended: on the create branch, an html that contains "</body>" is
\* uploaded with the attribution put in right before its first "</body>",
\* and an html without "</body>" is uploaded unchanged, without it; on
\* overwrite the html is uploaded unchanged
AttributionBeforeFirstCloseBody ==
    \A n \in 1..Len(UploadCalls) :
        LET text == UploadCalls[n].files[1].content
            html == dbody.html.chars
        IN  IF ~IsCreate(dbody.path) THEN text = html
            ELSE IF ~Includes(html, CloseBody) THEN text = html
            ELSE \E k \in 0..(Len(html) - Len(CloseBody)) :
                    InsertedBeforeFirstCloseBody(text, html, k)

\* a new site was uploaded whose html has two closing body tags
WitnessAttribution ==
    /\ IsCreate(dbody.path)
    /\ UploadCalls # <<>>
    /\ Cardinality(Occurrences(dbody.html.chars, CloseBody)) = 2

\* C10: the slug is made of lowercase letters, digits and single "-", does
\* not begin or end with "-", is at most SlugMax long, and the slug of
\* "My Cool App!!" is "my-cool-app"
SlugWellFormed ==
    newTitle # Undefined =>
        LET slug == newTitle.chars
        IN  /\ Len(slug) <= SlugMax
            /\ \A k \in 1..Len(slug) : IsAlnum(slug[k]) \/ slug[k] = "-"
            /\ \A k \in 1..(Len(slug) - 1) :
                  ~(slug[k] = "-" /\ slug[k + 1] = "-")
            /\ slug # <<>> => (slug[1] # "-" /\ slug[Len(slug)] # "-")
            /\ dbody.title.chars = MyCoolApp =>
                  slug = <<"m", "y", "-", "c", "o", "o", "l", "-", "a", "p",
                           "p">>

\* C11: title is needed only to create: an authenticated request with an
\* html and a non-empty path is not answered 400 and goes on to its upload,
\* whatever its title
TitleRequiredOnlyOnCreate ==
    (dpc # "idle" /\ Truthy(cookies) /\ Truthy(dbody.html)
       /\ Truthy(dbody.path)) =>
        /\ dres.statusCode # 400
        /\ UploadCalls # <<>>

\* C12: an authenticated request without a path whose html or title is
\* missing or empty is answered 400 with the missing-fields error, and no
\* call is made to the platform
MissingFieldsOnCreate ==
    (dpc # "idle" /\ Truthy(cookies) /\ IsCreate(dbody.path)
       /\ (~Truthy(dbody.html) \/ ~Truthy(dbody.title))) =>
        /\ dpc = "done"
        /\ dres.statusCode = 400
        /\ ~dres.ok
        /\ dres.message = MissingFields
        /\ hubCalls = <<>>

\* a request to create, with an html and no title, was answered
WitnessMissingTitle ==
    /\ dpc = "done"
    /\ Truthy(cookies)
    /\ IsCreate(dbody.path)
    /\ Truthy(dbody.html)
    /\ dbody.title = Undefined
    /\ dres.statusCode = 400

LastCall == hubCalls[Len(hubCalls)]

\* C13: a rejected call to the platform ends the request with a 500 that
\* carries the message of the rejection; no call is made twice; after a
\* rejected createRepo there is no upload
PublishFailureReported ==
    /\ \A a, b \in 1..Len(hubCalls) : a # b => hubCalls[a].op # hubCalls[b].op
    /\ dres.statusCode = 500 => derr # "none"
    /\ derr # "none" =>
          /\ dpc = "done"
          /\ derr \in HubErrors
          /\ dres.statusCode = 500
          /\ ~dres.ok
          /\ dres.message = derr
          /\ hubCalls # <<>>
          /\ LastCall.op = "createRepo" => UploadCalls = <<>>
          /\ LastCall.op = "whoAmI" => Len(hubCalls) = 1

\* createRepo was rejected
WitnessCreateRepoRejected ==
    /\ derr = "Invalid credentials"
    /\ dres.statusCode = 500
    /\ Len(hubCalls) = 2
    /\ LastCall.op = "createRepo"

-----------------------------------------------------------------------------
(* The rate-limit counter, checked under Spec *)

\* C14: once a generate request of a caller was received, ipAddresses has an
\* entry for that caller, equal to the number of its requests
RateLimitCounted ==
    pc # "idle" =>
        /\ ip \in DOMAIN ipAddresses
        /\ ipAddresses[ip] = 1

-----------------------------------------------------------------------------
(* Properties of the login callback and the current-user route, checked
   under SpecAuth *)

\* C15: no failure of an external call leaves a handler uncaught: every
\* request that is over was answered by its handler
ExternalFailuresCaught ==
    /\ escaped = {}
    /\ lpc = "done" => lres.status # 0
    /\ mpc = "done" => mres.statusCode # 0

\* C16: when the userinfo endpoint rejects the token, the cookie is cleared
\* and the answer is 401; an answer of 200 carries the profile
RejectedTokenClearsSession ==
    /\ (mpc = "done" /\ request_user.status = 401) =>
          /\ mres.statusCode = 401
          /\ mres.cleared
    /\ mres.statusCode = 200 => mres.body = "profile"

-----------------------------------------------------------------------------
(* Further properties of the generate route, checked under Spec *)

ProbeCalls == SelectSeq(calls, LAMBDA c : c.op = "models.list")

\* C17: the probes are made one after the other in the order of the pool,
\* each after the one before it failed, and before any completion; their
\* number is the index of the first passing key, or the length of the pool
\* when no key passes
SequentialProbes ==
    LET n == Len(ProbeCalls)
    IN  /\ \A k \in 1..n : ProbeCalls[k].apiKey = openRouterKeys[k]
        /\ \A k \in 1..(n - 1) : openRouterKeys[k] \notin validKeys
        /\ \A k \in 1..Len(calls) :
              calls[k].op = "models.list" => k <= n
        /\ pc = "probe" => n = i + 1
        /\ (PastProbing /\ HasPassingKey) => n = FirstPassing
        /\ (pc = "done" /\ Truthy(body.prompt) /\ ~HasPassingKey) =>
              n = Len(openRouterKeys)

\* the second key passed, and the third, which would pass too, was not probed
WitnessStopsProbing ==
    /\ PastProbing
    /\ Len(openRouterKeys) >= 3
    /\ openRouterKeys[1] \notin validKeys
    /\ openRouterKeys[2] \in validKeys
    /\ openRouterKeys[3] \in validKeys
    /\ Len(ProbeCalls) = 2

\* C19: what was written to the caller is, fragment by fragment, what was
\* taken from the stream, in the order of arrival, and its concatenation is
\* the buffer
RelayForwardsEveryFragment ==
    /\ Len(res.written) = Len(consumed)
    /\ \A k \in 1..Len(consumed) :
          res.written[k] = (IF consumed[k] = Undefined THEN <<>>
                            ELSE consumed[k].chars)
    /\ Flatten(res.written) = completeResponse

\* three fragments were relayed, the last one completing the marker
WitnessRelayed ==
    /\ Len(consumed) = 3
    /\ consumed[1] = Undefined
    /\ Includes(completeResponse, CloseHtml)
    /\ pc = "done"

-----------------------------------------------------------------------------
(* Termination of the generate route, checked under FairSpec *)

Running == pc \in {"probe", "create", "stream"}

Terminated == pc = "done" /\ res.ended = 1

\* C20: a request with a prompt, once every awaited upstream call settles,
\* ends its response: the response is never ended twice, a request that is
\* under way leads to a finished handler whose response was ended once, and
\* a finished handler stays so
EndsExactlyOnce ==
    /\ [](res.ended <= 1)
    /\ [](pc = "done" => res.ended = 1)
    /\ (Running ~> Terminated)
    /\ [][Terminated => Terminated']_vars

\* the stream ended by itself, without the marker, after relaying a fragment
WitnessNaturalEnd ==
    /\ Terminated
    /\ caught = "none"
    /\ Len(res.written) >= 1
    /\ ~Includes(completeResponse, CloseHtml)
    /\ res.json = <<>>

-----------------------------------------------------------------------------
(* Two generate requests interleaved, checked under SpecConcurrent *)

OwnText(r) == Flatten(handlers[r].res.written)

\* C18: of generate requests that interleave at their awaits, each has its
\* own credential index and buffer: the client of a request is bound to
\* the key whose probe resolved for that request, its buffer is the text of
\* its own fragments, and it leaves its loop by the break exactly when its
\* own fragments contain the closing html tag
RequestsShareNoState ==
    \A r \in Requests :
       LET h == handlers[r]
       IN  /\ h.pc = "probe" =>
                 /\ h.listing = h.openRouterKeys[h.apiKeyIndex + 1]
                 /\ h.client.apiKey = h.listing
           /\ h.openai # NoClient =>
                 /\ h.passed # Undefined
                 /\ h.openai.apiKey = h.passed
           /\ h.completeResponse = OwnText(r)
           /\ h.broke => Includes(OwnText(r), CloseHtml)
           /\ (Includes(OwnText(r), CloseHtml) /\ h.res.ended = 1) => h.broke

\* the two requests stream together on different keys; the fragments of
\* the one followed by those of the other would make the closing tag, and
\* neither has stopped
WitnessInterleavedStreams ==
    /\ handlers["r1"].pc = "stream"
    /\ handlers["r2"].pc = "stream"
    /\ handlers["r1"].openai.apiKey = KeyOf(1)
    /\ handlers["r2"].openai.apiKey = KeyOf(2)
    /\ handlers["r1"].res.written = <<<<"<", "/", "h", "t">>>>
    /\ handlers["r2"].res.written = <<<<"m", "l", ">">>>>

====
